---- MODULE Spec2Model ----
(***************************************************************************)
(* Layout engine of awsDataToNodeEdge.py: graph construction, the layered  *)
(* (Sugiyama) solver, the collision resolver, the container sizing passes  *)
(* and the position validator.                                             *)
(*                                                                         *)
(* Node ids are the 1-based creation index of the node in self.nodes (the  *)
(* list is append-only and is never reordered); parentId 0 stands for      *)
(* None.  Coordinates are integers.                                        *)
(*                                                                         *)
(* Two specifications:                                                     *)
(*   Spec      convert(): construction, layout, resolver, re-sizing,       *)
(*             validation, over bounded inventories;                       *)
(*   SpecUnit  the geometry passes called on a containment tree of the     *)
(*             builder's shape with geometry drawn from bounded sets.      *)
(***************************************************************************)
EXTENDS Integers, Sequences, FiniteSets, TLC

VARIABLES
    nodes,          \* self.nodes: sequence of node records
    edges,          \* self.edges: sequence of edge records
    use_sugiyama,   \* constructor argument
    pc,             \* position in convert(), or "idle" between the calls of SpecUnit
    phase,          \* position inside _process_region
    layers,         \* result of _assign_layers: node id -> layer
    pending,        \* resolver: parent groups not yet processed, in dict order
    iteration,      \* resolver: scans already made on the current group
    node_overlaps,  \* value returned by the last _check_node_overlaps
    edge_overlaps,  \* value returned by the last _check_edge_overlaps
    prev,           \* self.nodes as it was when the last pass was entered
    passes          \* names of the passes entered so far, oldest first

vars == <<nodes, edges, use_sugiyama, pc, phase, layers, pending, iteration,
          node_overlaps, edge_overlaps, prev, passes>>

----------------------------------------------------------------------------
(* Bounds of the model *)

MaxNodes == 5       \* nodes created by graph construction
MaxRegions == 2     \* regions in the inventory
MaxSiblings == 3    \* SpecUnit: containers under the one VPC
MaxCalls == 2       \* SpecUnit: passes called one after another
MaxInput == 3       \* SpecLayout: nodes in the list handed to apply_layout
MaxOthers == 1      \* SpecEdge: nodes beside the two endpoints of the edge

----------------------------------------------------------------------------
(* Program constants *)

LAYER_SPACING == 300
NODE_SPACING == 200
CONTAINER_PADDING == 30
ResizePadding == 30
RecalcPadding == 20
CollisionGap == 20
max_iterations == 10
ChildYOffset == 100
RootYOffset == 20
RootMargin == 200
LeftMargin == 20
DistanceThresholdSquared == 100

None == 0

----------------------------------------------------------------------------
(* Generic helpers *)

Max2(a, b) == IF a >= b THEN a ELSE b

Min2(a, b) == IF a <= b THEN a ELSE b

SetMax(S) == CHOOSE m \in S : \A e \in S : e <= m

SetMin(S) == CHOOSE m \in S : \A e \in S : m <= e

Range(s) == {s[i] : i \in 1..Len(s)}

\* the ids 1..n in list order
Ids(ns) == [i \in 1..Len(ns) |-> i]

\* insert e into the key-sorted sequence s after every element whose key is
\* not greater (stable ascending order); key is a function on the elements
RECURSIVE InsertAsc(_, _, _)
InsertAsc(s, e, key) ==
    IF s = <<>> THEN <<e>>
    ELSE IF key[e] < key[Head(s)] THEN <<e>> \o s
    ELSE <<Head(s)>> \o InsertAsc(Tail(s), e, key)

\* sorted(s, key=...): stable, ascending
RECURSIVE SortAsc(_, _)
SortAsc(s, key) ==
    IF s = <<>> THEN <<>>
    ELSE InsertAsc(SortAsc(SubSeq(s, 1, Len(s) - 1), key), s[Len(s)], key)

\* s.sort(key=..., reverse=True): stable, descending
SortDesc(s, key) == SortAsc(s, [e \in DOMAIN key |-> 0 - key[e]])

----------------------------------------------------------------------------
(* Nodes and edges *)

\* _create_node: the record appended to self.nodes
Node(id, rtype, x, y, w, h, cont, parent, depth, reg, ref, sg) ==
    [id |-> id, rtype |-> rtype, x |-> x, y |-> y, width |-> w, height |-> h,
     isContainer |-> cont, parentId |-> parent, nestingDepth |-> depth,
     reg |-> reg, ref |-> ref, sg |-> sg]

\* _create_edge: the record appended to self.edges
Edge(source, target, etype) == [source |-> source, target |-> target, etype |-> etype]

ChildrenOf(ns, p) == {i \in 1..Len(ns) : ns[i].parentId = p}

ContainerIds(ns) == {i \in 1..Len(ns) : ns[i].isContainer}

RECURSIVE AncestorsOf(_, _)
AncestorsOf(ns, i) ==
    IF ns[i].parentId = None THEN {}
    ELSE {ns[i].parentId} \cup AncestorsOf(ns, ns[i].parentId)

DescendantsOf(ns, p) == {i \in 1..Len(ns) : p \in AncestorsOf(ns, i)}

----------------------------------------------------------------------------
(* Graph construction: convert() calls _process_region for every region;   *)
(* every step below processes one record of the region's inventory, in the *)
(* order in which _process_region walks the categories.                    *)

PhaseOrder == <<"start", "region", "vpcs", "subnets", "instances", "igws",
                "security_groups", "rds_instances", "lambdas", "s3_buckets",
                "sqs_queues", "ecs_clusters", "iam_roles", "edges">>

Rank(ph) == CHOOSE i \in 1..Len(PhaseOrder) : PhaseOrder[i] = ph

\* no region is being processed
RegionsDone == phase \in {"start", "edges"}

\* the record belongs to category ph, which the current region has not passed
InPhase(ph) ==
    /\ pc = "build"
    /\ ~RegionsDone
    /\ Rank(phase) <= Rank(ph)
    /\ Len(nodes) < MaxNodes

OfType(ns, t) == SelectSeq(Ids(ns), LAMBDA i : ns[i].rtype = t)

\* the region being processed, and its node id
CurReg == Len(OfType(nodes, "region"))

region_id == OfType(nodes, "region")[CurReg]

\* region_nodes[0]["id"] if region_nodes else None
FirstRegion == IF OfType(nodes, "region") = <<>> THEN None ELSE OfType(nodes, "region")[1]

\* nodes of type t created from the current region's records
Mine(t) == SelectSeq(OfType(nodes, t), LAMBDA i : nodes[i].reg = CurReg)

\* the records of one category are grouped by VPC before they are processed:
\* v is the VPC of the group being processed or a VPC without a group yet
GroupOpen(t, v) ==
    LET mine == Mine(t)
    IN IF \A k \in 1..Len(mine) : nodes[mine[k]].ref # v
       THEN TRUE
       ELSE nodes[mine[Len(mine)]].ref = v

IndexInGroup(t, v) == Len(SelectSeq(Mine(t), LAMBDA i : nodes[i].ref = v))

NewId == Len(nodes) + 1

AddNode(n, ph) ==
    /\ nodes' = Append(nodes, n)
    /\ phase' = ph
    /\ UNCHANGED <<use_sugiyama, pc, layers, pending, iteration, node_overlaps, edge_overlaps,
                   prev, passes>>

\* _process_region, lines 680-695: the region container
ProcessRegion ==
    /\ pc = "build"
    /\ RegionsDone
    /\ CurReg < MaxRegions
    /\ Len(nodes) < MaxNodes
    /\ AddNode(Node(NewId, "region", 0, 0, 100, 100, TRUE, None, 0, CurReg + 1, None, None),
               "region")
    /\ UNCHANGED edges

\* _process_vpcs, one record
ProcessVpc ==
    /\ InPhase("vpcs")
    /\ AddNode(Node(NewId, "vpc", 100 + Len(Mine("vpc")) * 450, 140, 400, 300,
                    TRUE, region_id, 1, CurReg, None, None), "vpcs")
    /\ UNCHANGED edges

\* _process_subnets, one record whose VpcId names the VPC node v
ProcessSubnet(v) ==
    /\ InPhase("subnets")
    /\ nodes[v].rtype = "vpc"
    /\ GroupOpen("subnet", v)
    /\ AddNode(Node(NewId, "subnet", nodes[v].x + 40,
                    nodes[v].y + 120 + IndexInGroup("subnet", v) * 100, 200, 80,
                    TRUE, v, 2, CurReg, v, None), "subnets")
    /\ edges' = Append(edges, Edge(v, NewId, "vpc-to-subnet"))

\* _process_instances, one record: SubnetId names the subnet node sn, the
\* first security group is g (None: no group)
ProcessInstance(sn, g) ==
    /\ InPhase("instances")
    /\ nodes[sn].rtype = "subnet"
    /\ AddNode(Node(NewId, "ec2", nodes[sn].x + 30, nodes[sn].y + 30, 120, 88,
                    FALSE, sn, 3, CurReg, sn, g), "instances")
    /\ edges' = Append(edges, Edge(sn, NewId, "subnet-to-instance"))

\* x of the idx-th (0-based) of n gateways attached to VPC v; the quotient
\* (vpc_width - 80) / (n + 1) is rounded down
IgwX(v, idx, n) == nodes[v].x + 40 + (((idx + 1) * (nodes[v].width - 80)) \div (n + 1)) - 60

\* _process_igws, one more record attached to VPC node v: the spacing
\* depends on the size of v's group, so the group is laid out again
ProcessIgw(v) ==
    /\ InPhase("igws")
    /\ nodes[v].rtype = "vpc"
    /\ GroupOpen("internetgateway", v)
    /\ LET grp == SelectSeq(Mine("internetgateway"), LAMBDA i : nodes[i].ref = v)
           n == Len(grp) + 1
           pos(i) == CHOOSE k \in 1..Len(grp) : grp[k] = i
           respaced == [i \in 1..Len(nodes) |->
                          IF i \in Range(grp)
                          THEN [nodes[i] EXCEPT !.x = IgwX(v, pos(i) - 1, n)]
                          ELSE nodes[i]]
       IN nodes' = Append(respaced,
                          Node(NewId, "internetgateway", IgwX(v, n - 1, n), nodes[v].y + 20,
                               120, 88, FALSE, v, 2, CurReg, v, None))
    /\ phase' = "igws"
    /\ UNCHANGED <<edges, use_sugiyama, pc, layers, pending, iteration,
                   node_overlaps, edge_overlaps, prev, passes>>

\* security group ids the inventory may use
GroupIds == {1}

\* _process_security_groups, one record: group g of VPC node v; only groups
\* that some instance node names are created
ProcessSecurityGroup(g, v) ==
    /\ InPhase("security_groups")
    /\ nodes[v].rtype = "vpc"
    /\ \E i \in Range(OfType(nodes, "ec2")) : nodes[i].sg = g
    /\ \A i \in Range(OfType(nodes, "securityGroup")) : nodes[i].sg # g
    /\ GroupOpen("securityGroup", v)
    /\ AddNode(Node(NewId, "securityGroup", 0, 0, 150, 80, TRUE, v, 2, CurReg, v, g),
               "security_groups")
    /\ UNCHANGED edges

\* an exception leaves the handler and convert(): nothing is returned
Raise ==
    /\ pc' = "raised"
    /\ UNCHANGED <<nodes, edges, use_sugiyama, phase, layers, pending, iteration,
                   node_overlaps, edge_overlaps, prev, passes>>

\* _process_rds_instances, one record (without security_group and subnet_id
\* fields): the node goes into the first subnet of subnet_node_map; without
\* any subnet and without any VPC the record is skipped; without any subnet
\* but with a VPC, parent_id=vpc_node_id reads the variable of a loop that
\* never ran
ProcessRdsInstance ==
    /\ InPhase("rds_instances")
    /\ LET subnets == OfType(nodes, "subnet")
           sn == subnets[1]
       IN IF subnets # <<>>
          THEN /\ AddNode(Node(NewId, "rds", nodes[sn].x + nodes[sn].width - 130 - 10,
                               nodes[sn].y + 5, 130, 70, FALSE, sn, 3, CurReg, None, None),
                          "rds_instances")
               /\ UNCHANGED edges
          ELSE IF OfType(nodes, "vpc") = <<>>
          THEN /\ phase' = "rds_instances"
               /\ UNCHANGED <<nodes, edges, use_sugiyama, pc, layers, pending, iteration,
                              node_overlaps, edge_overlaps, prev, passes>>
          ELSE Raise

\* _process_ecs, one record: position={"x": x_pos, ...} reads a name that is
\* bound nowhere
ProcessEcsCluster ==
    /\ InPhase("ecs_clusters")
    /\ Raise

\* _process_lambdas, one record
ProcessLambda ==
    /\ InPhase("lambdas")
    /\ AddNode(Node(NewId, "lambda", 500 + Len(Mine("lambda")) * 150, 300, 110, 70,
                    FALSE, FirstRegion, 1, CurReg, None, None), "lambdas")
    /\ UNCHANGED edges

\* _process_s3_buckets, one record
ProcessS3Bucket ==
    /\ InPhase("s3_buckets")
    /\ AddNode(Node(NewId, "s3", 50 + (Len(OfType(nodes, "s3")) + 1) * 120, 50, 100, 80,
                    FALSE, None, 0, CurReg, None, None), "s3_buckets")
    /\ UNCHANGED edges

\* _process_sqs, one record
ProcessSqs ==
    /\ InPhase("sqs_queues")
    /\ AddNode(Node(NewId, "sqs", 600 + (Len(OfType(nodes, "sqs")) + 1) * 120, 450, 100, 70,
                    FALSE, FirstRegion, 1, CurReg, None, None), "sqs_queues")
    /\ UNCHANGED edges

\* _process_iam_roles, one record
ProcessIamRole ==
    /\ InPhase("iam_roles")
    /\ AddNode(Node(NewId, "iamrole", 1100 + (Len(OfType(nodes, "iamrole")) + 1) * 120, 150,
                    100, 60, FALSE, None, 0, CurReg, None, None), "iam_roles")
    /\ UNCHANGED edges

\* a record that creates nothing: a subnet, gateway or security group whose
\* VpcId is in no vpc_node_map entry, an instance whose SubnetId is in no
\* subnet_node_map entry, a security group that no instance node names
SkipRecord(ph) ==
    /\ InPhase(ph)
    /\ phase' = ph
    /\ UNCHANGED <<nodes, edges, use_sugiyama, pc, layers, pending, iteration,
                   node_overlaps, edge_overlaps, prev, passes>>

\* one edge per element of ids, built by Mk
RECURSIVE EdgesFor(_, _)
EdgesFor(ids, mk) ==
    IF ids = <<>> THEN <<>> ELSE mk[Head(ids)] \o EdgesFor(Tail(ids), mk)

\* sg_node_map.get(g)
SgNode(g) ==
    LET hits == SelectSeq(OfType(nodes, "securityGroup"), LAMBDA i : nodes[i].sg = g)
    IN IF hits = <<>> THEN None ELSE hits[1]

\* _create_igw_vpc_edges
IgwVpcEdges ==
    EdgesFor(Mine("internetgateway"),
             [i \in 1..Len(nodes) |-> <<Edge(i, nodes[i].ref, "igw-to-vpc")>>])

\* variant of SgInstanceEdges that does not test sg_node_id
SgInstanceEdges_Unchecked ==
    EdgesFor(Mine("ec2"),
             [i \in 1..Len(nodes) |->
                IF nodes[i].sg # None
                THEN <<Edge(SgNode(nodes[i].sg), i, "sg-to-instance")>> ELSE <<>>])

\* _create_sg_instance_edges
SgInstanceEdges ==
    EdgesFor(Mine("ec2"),
             [i \in 1..Len(nodes) |->
                IF nodes[i].sg # None /\ SgNode(nodes[i].sg) # None
                THEN <<Edge(SgNode(nodes[i].sg), i, "sg-to-instance")>> ELSE <<>>])

\* _create_instance_s3_edges: every instance to every bucket
InstanceS3Edges ==
    EdgesFor(Mine("ec2"),
             [i \in 1..Len(nodes) |->
                EdgesFor(OfType(nodes, "s3"),
                         [b \in 1..Len(nodes) |-> <<Edge(i, b, "instance-to-s3")>>])])

\* _create_rds_s3_edges: every database of the region to every bucket
RdsS3Edges ==
    EdgesFor(Mine("rds"),
             [i \in 1..Len(nodes) |->
                EdgesFor(OfType(nodes, "s3"),
                         [b \in 1..Len(nodes) |-> <<Edge(i, b, "rds-to-s3")>>])])

\* _create_instance_subnet_edges
InstanceSubnetEdges ==
    EdgesFor(Mine("ec2"),
             [i \in 1..Len(nodes) |-> <<Edge(i, nodes[i].ref, "instance-in-subnet")>>])

\* _process_region, lines 732-755: the edges of the region's records; the
\* region is complete
CreateRegionEdges ==
    /\ pc = "build"
    /\ ~RegionsDone
    /\ edges' = edges \o IgwVpcEdges \o SgInstanceEdges \o InstanceS3Edges
                      \o RdsS3Edges \o InstanceSubnetEdges
    /\ phase' = "edges"
    /\ UNCHANGED <<nodes, use_sugiyama, pc, layers, pending, iteration,
                   node_overlaps, edge_overlaps, prev, passes>>

BuildStep ==
    \/ ProcessRegion
    \/ ProcessVpc
    \/ \E v \in 1..Len(nodes) : ProcessSubnet(v)
    \/ \E sn \in 1..Len(nodes) : \E g \in GroupIds \cup {None} : ProcessInstance(sn, g)
    \/ \E v \in 1..Len(nodes) : ProcessIgw(v)
    \/ \E v \in 1..Len(nodes) : \E g \in GroupIds : ProcessSecurityGroup(g, v)
    \/ ProcessRdsInstance
    \/ ProcessEcsCluster
    \/ ProcessLambda
    \/ ProcessS3Bucket
    \/ ProcessSqs
    \/ ProcessIamRole
    \/ \E ph \in {"subnets", "instances", "igws", "security_groups"} : SkipRecord(ph)
    \/ CreateRegionEdges

\* AWSToCloudBuilderConverter.__init__
Init ==
    /\ nodes = <<>>
    /\ edges = <<>>
    /\ use_sugiyama \in BOOLEAN
    /\ pc = "build"
    /\ phase = "start"
    /\ layers = <<>>
    /\ pending = <<>>
    /\ iteration = 0
    /\ node_overlaps = <<>>
    /\ edge_overlaps = <<>>
    /\ prev = <<>>
    /\ passes = <<>>

----------------------------------------------------------------------------
(* SugiyamaLayout *)

\* RESOURCE_LAYERS
RESOURCE_LAYERS ==
    [region |-> 0, vpc |-> 1, subnet |-> 2, ec2 |-> 3, lambda |-> 3, rds |-> 2,
     s3 |-> 1, internetgateway |-> 1, natgateway |-> 2, routetable |-> 1,
     securityGroup |-> 2, elasticache |-> 2, dynamodb |-> 1, alb |-> 2, nlb |-> 2,
     cloudwatch |-> 1, cloudfront |-> 0, apigateway |-> 1, ebs |-> 3, snapshot |-> 2]

\* the layer given to node n when the nodes before it have the layers ly
LayerFor(n, ly) ==
    IF n.rtype \in DOMAIN RESOURCE_LAYERS THEN RESOURCE_LAYERS[n.rtype]
    ELSE IF n.parentId # None
         THEN (IF n.parentId \in DOMAIN ly THEN ly[n.parentId] ELSE 1) + 1
         ELSE 0

\* _assign_layers: one walk over the node list
RECURSIVE AssignLayersFrom(_, _, _)
AssignLayersFrom(ns, i, ly) ==
    IF i > Len(ns) THEN ly
    ELSE AssignLayersFrom(ns, i + 1,
            [k \in DOMAIN ly \cup {ns[i].id} |->
                IF k = ns[i].id THEN LayerFor(ns[i], ly) ELSE ly[k]])

AssignLayersPass(ns) == AssignLayersFrom(ns, 1, <<>>)

\* layer_nodes[L]: the positions in ns of the nodes of layer L, in list order
LayerNodes(ns, ly, L) == SelectSeq(Ids(ns), LAMBDA i : ly[ns[i].id] = L)

\* variant of SortedLayers that walks the layers highest first
SortedLayers_Descending(ns, ly) ==
    LET ks == {ly[ns[i].id] : i \in 1..Len(ns)}
    IN SortDesc(SelectSeq([i \in 1..(SetMax(ks \cup {0}) + 1) |-> i - 1], LAMBDA L : L \in ks),
                [L \in ks |-> L])

\* sorted(layer_nodes.keys())
SortedLayers(ns, ly) ==
    LET ks == {ly[ns[i].id] : i \in 1..Len(ns)}
    IN SortAsc(SelectSeq([i \in 1..(SetMax(ks \cup {0}) + 1) |-> i - 1], LAMBDA L : L \in ks),
               [L \in ks |-> L])

\* next(n for n in nodes if n['id'] == id): position of the node, 0 if none
Find(ns, id) ==
    IF \E i \in 1..Len(ns) : ns[i].id = id
    THEN CHOOSE i \in 1..Len(ns) : ns[i].id = id /\ \A j \in 1..(i - 1) : ns[j].id # id
    ELSE 0

\* variant of NeighborPositions that also takes the neighbours of the node's
\* own layer
RECURSIVE NeighborPositions_AnyLayer(_, _, _, _)
NeighborPositions_AnyLayer(ns, es, ly, i) ==
    IF es = <<>> THEN <<>>
    ELSE LET e == Head(es)
             other == IF e.source = ns[i].id THEN e.target
                      ELSE IF e.target = ns[i].id THEN e.source ELSE None
             nb == IF other = None THEN 0 ELSE Find(ns, other)
         IN (IF nb # 0 THEN <<ns[nb].x>> ELSE <<>>)
            \o NeighborPositions_AnyLayer(ns, Tail(es), ly, i)

\* neighbor_positions of node i: one x per edge that joins it to a node of
\* another layer
RECURSIVE NeighborPositions(_, _, _, _)
NeighborPositions(ns, es, ly, i) ==
    IF es = <<>> THEN <<>>
    ELSE LET e == Head(es)
             other == IF e.source = ns[i].id THEN e.target
                      ELSE IF e.target = ns[i].id THEN e.source ELSE None
             nb == IF other = None THEN 0 ELSE Find(ns, other)
         IN (IF nb # 0 /\ ly[ns[nb].id] # ly[ns[i].id] THEN <<ns[nb].x>> ELSE <<>>)
            \o NeighborPositions(ns, Tail(es), ly, i)

RECURSIVE SeqSum(_)
SeqSum(s) == IF s = <<>> THEN 0 ELSE Head(s) + SeqSum(Tail(s))

RECURSIVE Factorial(_)
Factorial(n) == IF n <= 1 THEN 1 ELSE n * Factorial(n - 1)

\* barycenters[id], multiplied by Factorial(Len(es)) so that the mean of up
\* to Len(es) integers is an integer
Barycenter(ns, es, ly, i) ==
    LET np == NeighborPositions(ns, es, ly, i)
        f == Factorial(Len(es))
    IN IF np # <<>> THEN (SeqSum(np) * f) \div Len(np) ELSE ns[i].x * f

\* layer_nodes[L] after layer_nodes[L].sort(key=barycenter)
BarycenterOrder(ns, es, ly, L) ==
    SortAsc(LayerNodes(ns, ly, L), [i \in 1..Len(ns) |-> Barycenter(ns, es, ly, i)])

\* position of e in s
IndexOf(s, e) == CHOOSE k \in 1..Len(s) : s[k] = e

\* variant of OrderedNodes that writes every sorted layer back into the
\* places its nodes hold in the list
OrderedNodes_WriteBack(ns, es, ly) ==
    [i \in 1..Len(ns) |->
        ns[BarycenterOrder(ns, es, ly, ly[ns[i].id])[
              IndexOf(LayerNodes(ns, ly, ly[ns[i].id]), i)]]]

\* the node list after _order_nodes_by_barycenter: the pass sorts its own
\* layer_nodes lists, which it drops on return; the list itself is not touched
OrderedNodes(ns, es, ly) == ns

\* layer_y[L]: the bands of the layers above, each as high as its tallest
\* node plus LAYER_SPACING
RECURSIVE LayerY(_, _, _)
LayerY(ns, ly, above) ==
    IF above = <<>> THEN 0
    ELSE SetMax({ns[i].height : i \in Range(LayerNodes(ns, ly, Head(above)))})
         + LAYER_SPACING + LayerY(ns, ly, Tail(above))

\* parent_groups keys of a layer in dict order; None stands for 'root'
RECURSIVE GroupKeys(_, _, _)
GroupKeys(ns, inLayer, acc) ==
    IF inLayer = <<>> THEN acc
    ELSE IF ns[Head(inLayer)].parentId \in Range(acc)
         THEN GroupKeys(ns, Tail(inLayer), acc)
         ELSE GroupKeys(ns, Tail(inLayer), Append(acc, ns[Head(inLayer)].parentId))

\* x of the idx-th (0-based) child of a group, clamped to the parent's right
\* edge
ChildX(parent, w, idx) ==
    LET start_x == parent.x + CONTAINER_PADDING
        max_parent_right == parent.x + parent.width
        x_pos == start_x + idx * (w + NODE_SPACING)
    IN IF x_pos + w > max_parent_right - CONTAINER_PADDING
       THEN max_parent_right - w - CONTAINER_PADDING
       ELSE x_pos

\* the group grp of layer-band y0 placed inside its parent ns[p]
PlaceChildren(ns, p, grp, y0) ==
    [i \in 1..Len(ns) |->
        IF i \in Range(grp)
        THEN [ns[i] EXCEPT !.x = ChildX(ns[p], ns[i].width, IndexOf(grp, i) - 1),
                           !.y = y0 + (IndexOf(grp, i) - 1) * ChildYOffset]
        ELSE ns[i]]

\* max_container_right: the rightmost edge of the containers as they are now
MaxContainerRight(ns) ==
    IF ContainerIds(ns) = {} THEN 0
    ELSE SetMax({ns[c].x + ns[c].width : c \in ContainerIds(ns)})

\* start_x of a root group
RootStartX(ns, current_x) == Max2(current_x, MaxContainerRight(ns) + RootMargin)

\* the root group grp of layer-band y0
PlaceRoots(ns, grp, y0, current_x) ==
    [i \in 1..Len(ns) |->
        IF i \in Range(grp)
        THEN [ns[i] EXCEPT !.x = RootStartX(ns, current_x)
                                  + (IndexOf(grp, i) - 1) * (ns[i].width + NODE_SPACING),
                           !.y = y0 + (IndexOf(grp, i) - 1) * RootYOffset]
        ELSE ns[i]]

\* the loop over the parent groups of one layer
RECURSIVE PlaceGroups(_, _, _, _, _)
PlaceGroups(ns, inLayer, keys, y0, current_x) ==
    IF keys = <<>> THEN ns
    ELSE LET grp == SelectSeq(inLayer, LAMBDA i : ns[i].parentId = Head(keys))
             p == IF Head(keys) = None THEN 0 ELSE Find(ns, Head(keys))
         IN IF p # 0
            THEN PlaceGroups(PlaceChildren(ns, p, grp, y0), inLayer, Tail(keys), y0, current_x)
            ELSE LET placed == PlaceRoots(ns, grp, y0, current_x)
                     lastn == placed[grp[Len(grp)]]
                 IN PlaceGroups(placed, inLayer, Tail(keys), y0,
                                lastn.x + lastn.width + NODE_SPACING)

\* the nodes of one layer in the order in which the loop over its parent
\* groups assigns their positions
RECURSIVE GroupsInOrder(_, _, _)
GroupsInOrder(ns, inLayer, keys) ==
    IF keys = <<>> THEN <<>>
    ELSE SelectSeq(inLayer, LAMBDA i : ns[i].parentId = Head(keys))
         \o GroupsInOrder(ns, inLayer, Tail(keys))

\* the nodes in the order in which _calculate_positions assigns their
\* positions: layer after layer of todo, group after group
RECURSIVE PlacementOrder(_, _, _)
PlacementOrder(ns, ly, todo) ==
    IF todo = <<>> THEN <<>>
    ELSE LET inLayer == LayerNodes(ns, ly, Head(todo))
         IN GroupsInOrder(ns, inLayer, GroupKeys(ns, inLayer, <<>>))
            \o PlacementOrder(ns, ly, Tail(todo))

\* the loop over the layers, lowest first; done holds the layers placed
RECURSIVE PlaceLayers(_, _, _, _)
PlaceLayers(ns, ly, done, todo) ==
    IF todo = <<>> THEN ns
    ELSE LET inLayer == LayerNodes(ns, ly, Head(todo))
         IN PlaceLayers(PlaceGroups(ns, inLayer, GroupKeys(ns, inLayer, <<>>),
                                    LayerY(ns, ly, done), LeftMargin),
                        ly, Append(done, Head(todo)), Tail(todo))

\* _calculate_positions
CalculatePositionsPass(ns, ly) == PlaceLayers(ns, ly, <<>>, SortedLayers(ns, ly))

----------------------------------------------------------------------------
(* _resolve_container_collisions *)

\* by_parent: the parent keys in dict insertion order (first container seen)
RECURSIVE ByParentKeys(_, _, _)
ByParentKeys(ns, i, acc) ==
    IF i > Len(ns) THEN acc
    ELSE IF ns[i].isContainer /\ ns[i].parentId \notin Range(acc)
         THEN ByParentKeys(ns, i + 1, Append(acc, ns[i].parentId))
         ELSE ByParentKeys(ns, i + 1, acc)

\* by_parent[p]: the containers under p in list order
GroupOf(ns, p) ==
    SelectSeq(Ids(ns), LAMBDA i : ns[i].isContainer /\ ns[i].parentId = p)

\* the groups the outer loop does not skip (len(containers) >= 2)
GroupsToResolve(ns) ==
    SelectSeq(ByParentKeys(ns, 1, <<>>), LAMBDA p : Len(GroupOf(ns, p)) >= 2)

\* containers_sorted = sorted(containers, key=y)
ContainersSorted(ns, p) == SortAsc(GroupOf(ns, p), [i \in 1..Len(ns) |-> ns[i].y])

\* the test that decides a push: c1's bottom is below c2's top
OverlapInY(ns, c1, c2) == ns[c1].y + ns[c1].height > ns[c2].y

\* variant of PushedY that forgets the upper container's height
PushedY_NoHeight(ns, c1) == ns[c1].y + CollisionGap

\* variant of PushedY that forgets the minimum gap
PushedY_NoGap(ns, c1) == ns[c1].y + ns[c1].height

\* new_y2 = y1 + h1 + gap
PushedY(ns, c1) == ns[c1].y + ns[c1].height + CollisionGap

\* variant of ApplyPush that moves everything inside c2 down with it
ApplyPush_WithContents(ns, c2, newY) ==
    [i \in 1..Len(ns) |->
        IF i = c2 \/ i \in DescendantsOf(ns, c2)
        THEN [ns[i] EXCEPT !.y = ns[i].y + (newY - ns[c2].y)]
        ELSE ns[i]]

\* variant of ApplyPush that also takes c2 out of its parent
ApplyPush_Detach(ns, c2, newY) == [ns EXCEPT ![c2].y = newY, ![c2].parentId = None]

\* what a push writes: only c2's own position
ApplyPush(ns, c2, newY) == [ns EXCEPT ![c2].y = newY]

\* the inner loop over adjacent pairs of containers_sorted, from pair i on
RECURSIVE ScanPairs(_, _, _, _)
ScanPairs(ns, sorted, i, found) ==
    IF i >= Len(sorted) THEN [ns |-> ns, overlaps_found |-> found]
    ELSE IF OverlapInY(ns, sorted[i], sorted[i + 1])
         THEN ScanPairs(ApplyPush(ns, sorted[i + 1], PushedY(ns, sorted[i])),
                        sorted, i + 1, TRUE)
         ELSE ScanPairs(ns, sorted, i + 1, found)

\* variant of ScanGroup that ends the scan at the first push
ScanGroup_OnePushPerScan(ns, p) ==
    LET sorted == ContainersSorted(ns, p)
        hits == {i \in 1..(Len(sorted) - 1) : OverlapInY(ns, sorted[i], sorted[i + 1])}
    IN IF hits = {} THEN [ns |-> ns, overlaps_found |-> FALSE]
       ELSE [ns |-> ApplyPush(ns, sorted[SetMin(hits) + 1], PushedY(ns, sorted[SetMin(hits)])),
             overlaps_found |-> TRUE]

\* one iteration of "for iteration in range(max_iterations)" on group p
ScanGroup(ns, p) == ScanPairs(ns, ContainersSorted(ns, p), 1, FALSE)

\* entry of the resolver: group the containers; nothing to do when no group
\* has two containers
ResolveStart(at, scanning, next) ==
    /\ pc = at
    /\ prev' = nodes
    /\ passes' = Append(passes, "resolve")
    /\ pending' = GroupsToResolve(nodes)
    /\ iteration' = 0
    /\ pc' = IF GroupsToResolve(nodes) = <<>> THEN next ELSE scanning
    /\ UNCHANGED <<nodes, edges, use_sugiyama, phase, layers, node_overlaps, edge_overlaps>>

\* variant of LeaveGroup without the break after a scan that found nothing
LeaveGroup_OnlyAtCap(overlaps_found, it) == it + 1 >= max_iterations

\* the loop over range(max_iterations) ends after scan number it + 1: break
\* when the scan found no overlap, or the range is exhausted
LeaveGroup(overlaps_found, it) == ~overlaps_found \/ it + 1 >= max_iterations

\* one scan of the current group; the group is left after a scan without a
\* push or after max_iterations scans, the resolver after the last group
ResolveScan(scanning, next) ==
    /\ pc = scanning
    /\ pending # <<>>
    /\ LET r == ScanGroup(nodes, Head(pending))
           leave == LeaveGroup(r.overlaps_found, iteration)
       IN /\ nodes' = r.ns
          /\ iteration' = IF leave THEN 0 ELSE iteration + 1
          /\ pending' = IF leave THEN Tail(pending) ELSE pending
          /\ pc' = IF leave /\ Tail(pending) = <<>> THEN next ELSE scanning
    /\ UNCHANGED <<edges, use_sugiyama, phase, layers, node_overlaps, edge_overlaps, prev, passes>>

----------------------------------------------------------------------------
(* Container sizing passes *)

\* variant of DeepestFirst that sorts without reverse=True
DeepestFirst_ShallowFirst(ns) ==
    SortAsc(SelectSeq(Ids(ns), LAMBDA i : ns[i].isContainer),
            [i \in 1..Len(ns) |-> ns[i].nestingDepth])

\* containers sorted by nestingDepth, deepest first (stable)
DeepestFirst(ns) ==
    SortDesc(SelectSeq(Ids(ns), LAMBDA i : ns[i].isContainer),
             [i \in 1..Len(ns) |-> ns[i].nestingDepth])

\* variant of FitBox that measures the size from the container's old origin
FitBox_FromOldOrigin(ns, c, pad) ==
    LET ch == ChildrenOf(ns, c)
        min_x == SetMin({ns[k].x : k \in ch})
        max_x == SetMax({ns[k].x + ns[k].width : k \in ch})
        min_y == SetMin({ns[k].y : k \in ch})
        max_y == SetMax({ns[k].y + ns[k].height : k \in ch})
    IN [ns EXCEPT ![c].x = min_x - pad,
                  ![c].y = min_y - pad,
                  ![c].width = (max_x - ns[c].x) + pad,
                  ![c].height = (max_y - ns[c].y) + pad]

\* variant of FitBox that keeps the container's corner where it is unless a
\* child sticks out of it
FitBox_GrowOnly(ns, c, pad) ==
    LET ch == ChildrenOf(ns, c)
        cx == Min2(ns[c].x, SetMin({ns[k].x : k \in ch}) - pad)
        cy == Min2(ns[c].y, SetMin({ns[k].y : k \in ch}) - pad)
        max_x == SetMax({ns[k].x + ns[k].width : k \in ch})
        max_y == SetMax({ns[k].y + ns[k].height : k \in ch})
    IN [ns EXCEPT ![c].x = cx,
                  ![c].y = cy,
                  ![c].width = (max_x - cx) + pad,
                  ![c].height = (max_y - cy) + pad]

\* the box written for container c: the children's extent plus pad all round
FitBox(ns, c, pad) ==
    LET ch == ChildrenOf(ns, c)
        min_x == SetMin({ns[k].x : k \in ch})
        max_x == SetMax({ns[k].x + ns[k].width : k \in ch})
        min_y == SetMin({ns[k].y : k \in ch})
        max_y == SetMax({ns[k].y + ns[k].height : k \in ch})
    IN [ns EXCEPT ![c].x = min_x - pad,
                  ![c].y = min_y - pad,
                  ![c].width = (max_x - min_x) + 2 * pad,
                  ![c].height = (max_y - min_y) + 2 * pad]

\* variant of FitOne that fits a childless container to an empty extent
FitOne_CollapseEmpty(ns, c, pad) ==
    IF ChildrenOf(ns, c) = {}
    THEN [ns EXCEPT ![c].width = 2 * pad, ![c].height = 2 * pad]
    ELSE FitBox(ns, c, pad)

\* one turn of the loop: a childless container is skipped (continue)
FitOne(ns, c, pad) ==
    IF ChildrenOf(ns, c) = {} THEN ns ELSE FitBox(ns, c, pad)

\* the loop over the sorted containers
RECURSIVE FitLoop(_, _, _)
FitLoop(ns, order, pad) ==
    IF order = <<>> THEN ns
    ELSE FitLoop(FitOne(ns, Head(order), pad), Tail(order), pad)

\* SugiyamaLayout._size_containers
SizeContainersPass(ns) == FitLoop(ns, DeepestFirst(ns), CONTAINER_PADDING)

\* _resize_containers_to_fit_children
ResizePass(ns) == FitLoop(ns, DeepestFirst(ns), ResizePadding)

\* _recalculate_all_container_sizes, one container: move left/up only when a
\* child sticks out, never shrink
RecalcBox(ns, c) ==
    LET ch == ChildrenOf(ns, c)
        min_x == SetMin({ns[k].x : k \in ch})
        min_y == SetMin({ns[k].y : k \in ch})
        max_right == SetMax({ns[k].x + ns[k].width : k \in ch})
        max_bottom == SetMax({ns[k].y + ns[k].height : k \in ch})
        cx == IF min_x < ns[c].x THEN min_x - RecalcPadding ELSE ns[c].x
        cy == IF min_y < ns[c].y THEN min_y - RecalcPadding ELSE ns[c].y
    IN [ns EXCEPT ![c].x = cx,
                  ![c].y = cy,
                  ![c].width = Max2(ns[c].width, max_right - cx + RecalcPadding),
                  ![c].height = Max2(ns[c].height, max_bottom - cy + RecalcPadding)]

RECURSIVE RecalcLoop(_, _)
RecalcLoop(ns, order) ==
    IF order = <<>> THEN ns
    ELSE IF ChildrenOf(ns, Head(order)) = {}
         THEN RecalcLoop(ns, Tail(order))
         ELSE RecalcLoop(RecalcBox(ns, Head(order)), Tail(order))

\* _recalculate_all_container_sizes
RecalcPass(ns) == RecalcLoop(ns, DeepestFirst(ns))

----------------------------------------------------------------------------
(* _apply_hierarchical_layout *)

\* variant of FixOrphanedNodes that also forces the VPC nodes into the first
\* VPC
FixOrphanedNodes_VpcsToo(ns) ==
    LET vpc_nodes == OfType(ns, "vpc")
    IN IF vpc_nodes = <<>> THEN ns
       ELSE [i \in 1..Len(ns) |->
                IF ns[i].rtype \in {"rds", "natgateway", "s3", "vpc"}
                THEN [ns[i] EXCEPT !.parentId = vpc_nodes[1]]
                ELSE ns[i]]

\* _fix_orphaned_nodes: rds, natgateway and s3 nodes become children of the
\* first VPC, if there is one
FixOrphanedNodes(ns) ==
    LET vpc_nodes == OfType(ns, "vpc")
    IN IF vpc_nodes = <<>> THEN ns
       ELSE [i \in 1..Len(ns) |->
                IF ns[i].rtype \in {"rds", "natgateway", "s3"}
                THEN [ns[i] EXCEPT !.parentId = vpc_nodes[1]]
                ELSE ns[i]]

\* children_by_parent[p], in list order
ChildSeq(ns, p) == SelectSeq(Ids(ns), LAMBDA i : ns[i].parentId = p)

\* the nodes of ids put at x, one under the other every step
FixedColumn(ns, ids, x, y, step) ==
    [i \in 1..Len(ns) |->
        IF i \in Range(ids)
        THEN [ns[i] EXCEPT !.x = x, !.y = y + (IndexOf(ids, i) - 1) * step]
        ELSE ns[i]]

\* the nodes of ids put at x, each below the one before by its height plus
\* spacing; at is the running y after the last
RECURSIVE Column(_, _, _, _, _)
Column(ns, ids, x, y, spacing) ==
    IF ids = <<>> THEN [ns |-> ns, at |-> y]
    ELSE Column([ns EXCEPT ![Head(ids)].x = x, ![Head(ids)].y = y],
                Tail(ids), x, y + ns[Head(ids)].height + spacing, spacing)

\* the nodes of ids put at y, each right of the one before by its width plus
\* spacing; at is the running x after the last
RECURSIVE Row(_, _, _, _, _)
Row(ns, ids, x, y, spacing) ==
    IF ids = <<>> THEN [ns |-> ns, at |-> x]
    ELSE Row([ns EXCEPT ![Head(ids)].x = x, ![Head(ids)].y = y],
             Tail(ids), x + ns[Head(ids)].width + spacing, y, spacing)

TypeIn(ns, ids, t) == SelectSeq(ids, LAMBDA i : ns[i].rtype = t)

\* _layout_regions
LayoutRegions(ns) == FixedColumn(ns, OfType(ns, "region"), 20, 20, 600)

\* _layout_vpcs_in_region
LayoutVpcsInRegion(ns, children, r) ==
    FixedColumn(ns, children, ns[r].x + 30, ns[r].y + 40, 400)

\* _layout_vpc_contents_v2
LayoutVpcContents(ns, children, v) ==
    LET vpc_x == ns[v].x
        vpc_y == ns[v].y
        with_subnets == Column(ns, TypeIn(ns, children, "subnet"),
                               vpc_x + 30, vpc_y + 30 + 20, 50 + 60).ns
        with_igws == Column(with_subnets, TypeIn(ns, children, "internetgateway"),
                            vpc_x + 350, vpc_y + 30, 50)
        with_nats == Column(with_igws.ns, TypeIn(ns, children, "natgateway"),
                            vpc_x + 350, with_igws.at, 50).ns
        with_rts == Column(with_nats, TypeIn(ns, children, "routetable"),
                           vpc_x + 350, vpc_y + 30 + 220, 50).ns
        with_rds == Row(with_rts, TypeIn(ns, ChildSeq(ns, v), "rds"),
                        vpc_x + 30, vpc_y + 480, 50)
    IN Row(with_rds.ns, TypeIn(ns, ChildSeq(ns, v), "s3"),
           with_rds.at, vpc_y + 480, 50).ns

\* _layout_subnet_contents_v2
LayoutSubnetContents(ns, children, sn) ==
    LET with_sgs == Column(ns, TypeIn(ns, children, "securityGroup"),
                           ns[sn].x + 15, ns[sn].y + 15, 12)
        with_instances == Column(with_sgs.ns, TypeIn(ns, children, "ec2"),
                                 ns[sn].x + 15, with_sgs.at, 12).ns
        rds == TypeIn(ns, children, "rds")
    IN IF rds = <<>> THEN with_instances
       ELSE Column(with_instances, rds,
                   ns[sn].x + ns[sn].width - ns[rds[1]].width - 15, ns[sn].y + 15, 12).ns

\* _layout_sg_contents_v2
LayoutSgContents(ns, children, g) ==
    Column(ns, children, ns[g].x + 8, ns[g].y + 8, 8).ns

\* _layout_generic_container
LayoutGenericContainer(ns, children, c) ==
    Column(ns, children, ns[c].x + 15, ns[c].y + 15, 15).ns

\* _size_container_to_children
SizeContainerToChildren(ns, c) ==
    LET ch == ChildrenOf(ns, c)
        max_right == SetMax({ns[k].x + ns[k].width : k \in ch})
        max_bottom == SetMax({ns[k].y + ns[k].height : k \in ch})
    IN IF ch = {} THEN ns
       ELSE [ns EXCEPT ![c].width = Max2(ns[c].width, max_right - ns[c].x + 20),
                       ![c].height = Max2(ns[c].height, max_bottom - ns[c].y + 20)]

\* the layout of one level: the children of p, p = None for the top level
LayoutLevel(ns, children, p) ==
    IF p = None THEN LayoutRegions(ns)
    ELSE IF ns[p].rtype = "region" THEN LayoutVpcsInRegion(ns, children, p)
    ELSE IF ns[p].rtype = "vpc" THEN LayoutVpcContents(ns, children, p)
    ELSE IF ns[p].rtype = "subnet" THEN LayoutSubnetContents(ns, children, p)
    ELSE IF ns[p].rtype = "securityGroup" THEN LayoutSgContents(ns, children, p)
    ELSE LayoutGenericContainer(ns, children, p)

\* layout_recursive: the container children first, then this level, then the
\* size of the parent
RECURSIVE LayoutRecursive(_, _)
RECURSIVE LayoutEach(_, _)
LayoutEach(ns, children) ==
    IF children = <<>> THEN ns
    ELSE LayoutEach(IF ns[Head(children)].isContainer
                    THEN LayoutRecursive(ns, Head(children)) ELSE ns,
                    Tail(children))

LayoutRecursive(ns, p) ==
    LET children == ChildSeq(ns, p)
        leveled == LayoutLevel(LayoutEach(ns, children), children, p)
    IN IF children = <<>> THEN ns
       ELSE IF p = None THEN leveled
       ELSE SizeContainerToChildren(leveled, p)

----------------------------------------------------------------------------
(* Position validator *)

\* the AABB test of _check_node_overlaps: TRUE unless one box lies entirely
\* beyond the other
AABBCollide(a, b) ==
    ~(a.x + a.width < b.x \/ b.x + b.width < a.x
      \/ a.y + a.height < b.y \/ b.y + b.height < a.y)

\* the inner loop: node1 = ns[i] against ns[j], ns[j+1], ...
RECURSIVE OverlapsFrom(_, _, _)
OverlapsFrom(ns, i, j) ==
    IF j > Len(ns) THEN <<>>
    ELSE (IF ns[i].parentId = ns[j].parentId /\ AABBCollide(ns[i], ns[j])
          THEN <<(<<i, j>>)>> ELSE <<>>) \o OverlapsFrom(ns, i, j + 1)

\* the outer loop over node1
RECURSIVE OverlapsLoop(_, _)
OverlapsLoop(ns, i) ==
    IF i > Len(ns) THEN <<>>
    ELSE OverlapsFrom(ns, i, i + 1) \o OverlapsLoop(ns, i + 1)

\* _check_node_overlaps: the list of (node1 id, node2 id)
CheckNodeOverlaps(ns) == OverlapsLoop(ns, 1)

\* twice the centre of a node's box, as <<x, y>>: coordinates are doubled on
\* both sides of _line_rect_intersect so that width / 2 stays an integer
Centre2(n) == <<2 * n.x + n.width, 2 * n.y + n.height>>

\* _line_rect_intersect on doubled coordinates: the squared distance from the
\* start of the line to the closest point of the rectangle is below the
\* threshold; x2, y2 are not read
LineRectIntersect(x1, y1, x2, y2, rx, ry, rw, rh) ==
    LET closest_x == Max2(rx, Min2(x1, rx + rw))
        closest_y == Max2(ry, Min2(y1, ry + rh))
        dx == x1 - closest_x
        dy == y1 - closest_y
    IN dx * dx + dy * dy < 4 * DistanceThresholdSquared

\* the four `continue`s of the loop over the nodes for edge e
SkippedForEdge(ns, e, i) ==
    LET source_parent == ns[Find(ns, e.source)].parentId
        target_parent == ns[Find(ns, e.target)].parentId
    IN \/ ns[i].id \in {e.source, e.target}
       \/ ns[i].id = source_parent \/ ns[i].id = target_parent
       \/ ns[i].parentId = e.source \/ ns[i].parentId = e.target
       \/ /\ source_parent # None
          /\ source_parent = target_parent
          /\ ns[i].parentId = source_parent

\* the nodes reported for edge e, in list order
CrossedBy(ns, e) ==
    IF Find(ns, e.source) = 0 \/ Find(ns, e.target) = 0 THEN <<>>
    ELSE LET s == Centre2(ns[Find(ns, e.source)])
             t == Centre2(ns[Find(ns, e.target)])
         IN SelectSeq(Ids(ns), LAMBDA i :
               /\ ~SkippedForEdge(ns, e, i)
               /\ LineRectIntersect(s[1], s[2], t[1], t[2], 2 * ns[i].x, 2 * ns[i].y,
                                    2 * ns[i].width, 2 * ns[i].height))

\* _check_edge_overlaps: the list of (edge, node id), an edge being named by
\* its place in the edge list
RECURSIVE EdgeOverlapsFrom(_, _, _)
EdgeOverlapsFrom(ns, es, k) ==
    IF k > Len(es) THEN <<>>
    ELSE [j \in 1..Len(CrossedBy(ns, es[k])) |-> <<k, ns[CrossedBy(ns, es[k])[j]].id>>]
         \o EdgeOverlapsFrom(ns, es, k + 1)

CheckEdgeOverlaps(ns, es) == EdgeOverlapsFrom(ns, es, 1)

\* _verify_container_bounds: the (child, container) pairs it warns about
BoundsWarnings(ns) ==
    {<<k, c>> \in (1..Len(ns)) \X ContainerIds(ns) :
        /\ ns[k].parentId = c
        /\ \/ ns[k].x < ns[c].x
           \/ ns[k].y < ns[c].y
           \/ ns[k].x + ns[k].width > ns[c].x + ns[c].width
           \/ ns[k].y + ns[k].height > ns[c].y + ns[c].height}

\* the pass entered last, and the one entered before it
LastPass == IF passes = <<>> THEN "none" ELSE passes[Len(passes)]

PassBefore == IF Len(passes) < 2 THEN "none" ELSE passes[Len(passes) - 1]

----------------------------------------------------------------------------
(* A geometry pass as one step: self.nodes is replaced by the result *)

RunPass(at, next, name, result) ==
    /\ pc = at
    /\ nodes' = result
    /\ prev' = nodes
    /\ passes' = Append(passes, name)
    /\ pc' = next
    /\ UNCHANGED <<edges, use_sugiyama, phase, layers, pending, iteration,
                   node_overlaps, edge_overlaps>>

\* variant of AfterValidation that repairs the first reported overlap by
\* moving its second node below the first
AfterValidation_Repaired(ns) ==
    LET found == CheckNodeOverlaps(ns) IN
    IF found = <<>> THEN ns
    ELSE [ns EXCEPT ![found[1][2]].y =
              ns[found[1][1]].y + ns[found[1][1]].height + CollisionGap]

\* self.nodes after _verify_container_bounds, _check_node_overlaps,
\* _check_edge_overlaps and _validate_all_positions: they read the nodes,
\* print, and append to local lists only
AfterValidation(ns) == ns

\* the validators as one step: node_overlaps is the list that
\* _check_node_overlaps returns, edge_overlaps the list that
\* _check_edge_overlaps returns
RunCheck(at, next) ==
    /\ pc = at
    /\ node_overlaps' = CheckNodeOverlaps(nodes)
    /\ edge_overlaps' = CheckEdgeOverlaps(nodes, edges)
    /\ nodes' = AfterValidation(nodes)
    /\ prev' = nodes
    /\ passes' = Append(passes, "check")
    /\ pc' = next
    /\ UNCHANGED <<edges, use_sugiyama, phase, layers, pending, iteration>>

----------------------------------------------------------------------------
(* SpecUnit: the passes called on a tree of the builder's shape             *)
(* region > vpc > k sibling containers, the first of which holds an        *)
(* instance.                                                               *)

SiblingX == {40, 200}
SiblingY == {0, 100}
SiblingH == {60, 100}
LeafY == {30, 150}

SiblingBoxes == [x : SiblingX, y : SiblingY, height : SiblingH]

UnitTree(boxes, leafY) ==
    LET k == Len(boxes)
    IN <<Node(1, "region", 0, 0, 600, 600, TRUE, None, 0, 1, None, None),
         Node(2, "vpc", 20, 0, 500, 500, TRUE, 1, 1, 1, None, None)>>
       \o [i \in 1..k |->
             Node(i + 2, "subnet", boxes[i].x, boxes[i].y, 100, boxes[i].height,
                  TRUE, 2, 2, 1, 2, None)]
       \o <<Node(k + 3, "ec2", 70, leafY, 30, 30, FALSE, 3, 3, 1, 3, None)>>

InitUnit ==
    /\ \E k \in 2..MaxSiblings : \E boxes \in [1..k -> SiblingBoxes] :
         \E leafY \in LeafY : nodes = UnitTree(boxes, leafY)
    /\ edges = <<>>
    /\ use_sugiyama = FALSE
    /\ pc = "idle"
    /\ phase = "start"
    /\ layers = <<>>
    /\ pending = <<>>
    /\ iteration = 0
    /\ node_overlaps = <<>>
    /\ edge_overlaps = <<>>
    /\ prev = nodes
    /\ passes = <<>>

MayCall == Len(passes) < MaxCalls

CallResolve == MayCall /\ ResolveStart("idle", "u_resolve", "idle")

UnitResolveScan == ResolveScan("u_resolve", "idle")

CallSizeContainers == MayCall /\ RunPass("idle", "idle", "size", SizeContainersPass(nodes))

CallResize == MayCall /\ RunPass("idle", "idle", "resize", ResizePass(nodes))

CallRecalculate == MayCall /\ RunPass("idle", "idle", "recalc", RecalcPass(nodes))

CallCheckNodeOverlaps == MayCall /\ RunCheck("idle", "idle")

NextUnit ==
    \/ CallResolve
    \/ UnitResolveScan
    \/ CallSizeContainers
    \/ CallResize
    \/ CallRecalculate
    \/ CallCheckNodeOverlaps

SpecUnit == InitUnit /\ [][NextUnit]_vars

----------------------------------------------------------------------------
(* convert() after graph construction *)

\* apply_layout, phase 1
AssignLayers ==
    /\ pc = "build"
    /\ RegionsDone
    /\ use_sugiyama
    /\ layers' = AssignLayersPass(nodes)
    /\ prev' = nodes
    /\ passes' = Append(passes, "layers")
    /\ pc' = "order"
    /\ UNCHANGED <<nodes, edges, use_sugiyama, phase, pending, iteration, node_overlaps, edge_overlaps>>

\* apply_layout, phase 2
OrderNodesByBarycenter ==
    RunPass("order", "position", "order", OrderedNodes(nodes, edges, layers))

\* apply_layout, phase 3
CalculatePositions ==
    RunPass("position", "size", "position", CalculatePositionsPass(nodes, layers))

\* apply_layout, phase 4
SizeContainers ==
    RunPass("size", "resolve_entry", "size", SizeContainersPass(nodes))

\* _apply_hierarchical_layout, first step
FixOrphaned ==
    /\ pc = "build"
    /\ RegionsDone
    /\ ~use_sugiyama
    /\ nodes' = FixOrphanedNodes(nodes)
    /\ prev' = nodes
    /\ passes' = Append(passes, "fix")
    /\ pc' = "grid"
    /\ UNCHANGED <<edges, use_sugiyama, phase, layers, pending, iteration, node_overlaps, edge_overlaps>>

\* _apply_hierarchical_layout, layout_recursive() from the root
LayoutFromRoot ==
    RunPass("grid", "recalc", "grid", LayoutRecursive(nodes, None))

\* _apply_hierarchical_layout, final pass
RecalculateAllContainerSizes ==
    RunPass("recalc", "resolve_entry", "recalc", RecalcPass(nodes))

\* convert(), fourth pass
ResolveContainerCollisions == ResolveStart("resolve_entry", "resolve", "resize")

ResolveContainerCollisionsScan == ResolveScan("resolve", "resize")

\* convert(), fifth pass
ResizeContainersToFitChildren ==
    RunPass("resize", "validate", "resize", ResizePass(nodes))

\* convert(), sixth pass: _verify_container_bounds and _validate_all_positions
ValidateAllPositions == RunCheck("validate", "done")

(* SpecLayout: SugiyamaLayout.apply_layout called on a node list of its     *)
(* caller's choosing: regions of two widths and queues, a type without      *)
(* canonical layer, of two widths, each queue parentless or inside a region *)
(* that stands anywhere in the list.                                        *)

RegionWidths == {100, 700}

QueueWidths == {100, 150}

\* the lists of n drawn nodes: type, width and parentId per position
DrawnLists(n) ==
    {f \in [1..n -> [rtype : {"region", "sqs"},
                     width : RegionWidths \cup QueueWidths,
                     parentId : 0..n]] :
        \A i \in 1..n :
            IF f[i].rtype = "region"
            THEN f[i].width \in RegionWidths /\ f[i].parentId = None
            ELSE /\ f[i].width \in QueueWidths
                 /\ f[i].parentId # None => f[f[i].parentId].rtype = "region"}

InputNodes(f) ==
    [i \in DOMAIN f |->
        IF f[i].rtype = "region"
        THEN Node(i, "region", 0, 0, f[i].width, 100, TRUE, None, 0, i, None, None)
        ELSE Node(i, "sqs", 0, 0, f[i].width, 80, FALSE, f[i].parentId,
                  IF f[i].parentId = None THEN 0 ELSE 1, 1, None, None)]

InitLayout ==
    /\ \E n \in 1..MaxInput : \E f \in DrawnLists(n) : nodes = InputNodes(f)
    /\ edges = <<>>
    /\ use_sugiyama = TRUE
    /\ pc = "build"
    /\ phase = "edges"
    /\ layers = <<>>
    /\ pending = <<>>
    /\ iteration = 0
    /\ node_overlaps = <<>>
    /\ edge_overlaps = <<>>
    /\ prev = nodes
    /\ passes = <<>>

\* apply_layout: its four phases, then it returns
NextLayout ==
    \/ AssignLayers
    \/ OrderNodesByBarycenter
    \/ CalculatePositions
    \/ SizeContainers

SpecLayout == InitLayout /\ [][NextLayout]_vars

----------------------------------------------------------------------------
(* SpecEdge: _check_edge_overlaps called on a converter that holds one edge *)
(* between two parentless nodes and up to MaxOthers further parentless      *)
(* nodes, every box 100 x 80 at a place of a small grid.                    *)

EdgeXs == {0, 300, 600}

EdgeYs == {0, 200}

\* the node list for the places pos: node 1 is the source, node 2 the target
PlacedNodes(pos) ==
    [i \in DOMAIN pos |->
        Node(i, IF i = 1 THEN "ec2" ELSE IF i = 2 THEN "s3" ELSE "sqs",
             pos[i][1], pos[i][2], 100, 80, FALSE, None, 0, 1, None, None)]

InitEdge ==
    /\ \E n \in 1..MaxOthers : \E pos \in [1..(n + 2) -> EdgeXs \X EdgeYs] :
          nodes = PlacedNodes(pos)
    /\ edges = <<Edge(1, 2, "instance-to-s3")>>
    /\ use_sugiyama = FALSE
    /\ pc = "idle"
    /\ phase = "start"
    /\ layers = <<>>
    /\ pending = <<>>
    /\ iteration = 0
    /\ node_overlaps = <<>>
    /\ edge_overlaps = <<>>
    /\ prev = nodes
    /\ passes = <<>>

CallCheckEdgeOverlaps == RunCheck("idle", "done")

NextEdge == CallCheckEdgeOverlaps

SpecEdge == InitEdge /\ [][NextEdge]_vars

----------------------------------------------------------------------------
(* convert() as a whole *)

Next ==
    \/ BuildStep
    \/ AssignLayers
    \/ OrderNodesByBarycenter
    \/ CalculatePositions
    \/ SizeContainers
    \/ FixOrphaned
    \/ LayoutFromRoot
    \/ RecalculateAllContainerSizes
    \/ ResolveContainerCollisions
    \/ ResolveContainerCollisionsScan
    \/ ResizeContainersToFitChildren
    \/ ValidateAllPositions

Spec == Init /\ [][Next]_vars

----------------------------------------------------------------------------
(* Properties *)

\* two boxes overlap: they share a region of positive area
BoxesOverlap(a, b) ==
    /\ a.x < b.x + b.width /\ b.x < a.x + a.width
    /\ a.y < b.y + b.height /\ b.y < a.y + a.height

SiblingContainerPairs(ns) ==
    {q \in ContainerIds(ns) \X ContainerIds(ns) :
        q[1] < q[2] /\ ns[q[1]].parentId = ns[q[2]].parentId}

\* the resolver has just returned
ResolverReturned == LastPass = "resolve" /\ pc \in {"idle", "resize"}

\* a resolver scan is being taken
IsScan == pc \in {"resolve", "u_resolve"} /\ Len(nodes') = Len(nodes)

Pushed(c) == nodes'[c].y # nodes[c].y

\* C1: when _resolve_container_collisions returns, no two containers with
\* the same parentId have overlapping boxes (sizes positive, any start).
C1_SiblingContainersDisjoint ==
    ResolverReturned =>
        \A q \in SiblingContainerPairs(nodes) : ~BoxesOverlap(nodes[q[1]], nodes[q[2]])

\* C1 witness: the resolver returned after pushing apart a pair that
\* overlapped when it was entered
C1_Witness ==
    /\ ResolverReturned
    /\ \E q \in SiblingContainerPairs(prev) :
          /\ BoxesOverlap(prev[q[1]], prev[q[2]])
          /\ \E c \in {q[1], q[2]} : nodes[c].y > prev[c].y

\* C3: whenever a scan pushes a container down, every descendant of that
\* container moves down by the same offset.
C3_TranslateOnMove ==
    [][IsScan =>
         \A c \in 1..Len(nodes) :
            Pushed(c) =>
               \A d \in DescendantsOf(nodes, c) :
                  nodes'[d].y - nodes[d].y = nodes'[c].y - nodes[c].y]_vars

\* padded containment of every direct child, for every container with a child
PaddedContainment(ns, pad) ==
    \A c \in ContainerIds(ns) : \A k \in ChildrenOf(ns, c) :
        /\ ns[c].x + pad <= ns[k].x
        /\ ns[c].y + pad <= ns[k].y
        /\ ns[k].x + ns[k].width <= ns[c].x + ns[c].width - pad
        /\ ns[k].y + ns[k].height <= ns[c].y + ns[c].height - pad

SizingReturned ==
    /\ LastPass \in {"size", "resize"}
    /\ pc \in {"idle", "resolve_entry", "validate"}

\* C4: after _size_containers and after _resize_containers_to_fit_children
\* every container with a child contains each direct child with the padding
\* on all four sides, at every level at once, and _verify_container_bounds
\* has nothing to warn about.
C4_PaddedContainment ==
    SizingReturned =>
        /\ PaddedContainment(nodes, CONTAINER_PADDING)
        /\ BoundsWarnings(nodes) = {}

\* C4 witness: a sizing pass returned after changing a container that holds
\* a container that itself holds a child
C4_Witness ==
    /\ SizingReturned
    /\ \E c \in ContainerIds(nodes) : \E k \in ChildrenOf(nodes, c) :
          /\ nodes[k].isContainer /\ ChildrenOf(nodes, k) # {}
          /\ nodes[c] # prev[c] /\ nodes[k] # prev[k]

\* C6: a sizing pass entered right after the same sizing pass changes no
\* node.
C6_SizingIdempotent ==
    [][(/\ passes' # passes
        /\ passes'[Len(passes')] \in {"size", "resize", "recalc"}
        /\ LastPass = passes'[Len(passes')])
       => nodes' = nodes]_vars

\* C6 witness: the same sizing pass ran twice in a row, the first run having
\* changed the tree
C6_Witness ==
    /\ pc = "idle"
    /\ Len(passes) = 2
    /\ LastPass \in {"size", "resize", "recalc"} /\ PassBefore = LastPass
    /\ nodes[1].width # 600

\* the group of two containers that both start at y = 0 with height 100
ScenarioB(p) ==
    /\ Len(GroupOf(prev, p)) = 2
    /\ \A i \in 1..2 : prev[GroupOf(prev, p)[i]].y = 0
                       /\ prev[GroupOf(prev, p)[i]].height = 100

\* C8: two sibling containers that both start at y = 0 with height 100 end
\* with the first at y = 0 and the second at y >= 120; every pushed sibling's
\* new top is the bottom of the sibling above it plus the minimum gap.
C8_PushBelowUpperSibling ==
    [][/\ ResolverReturned' =>
            \A p \in 0..Len(prev') :
               ScenarioB(p)' => /\ nodes'[GroupOf(prev', p)[1]].y = 0
                                /\ nodes'[GroupOf(prev', p)[2]].y >= 120
       /\ (IsScan /\ pending # <<>>) =>
            LET sorted == ContainersSorted(nodes, Head(pending))
            IN \A c \in 1..Len(nodes) :
                  Pushed(c) =>
                     \E i \in 1..(Len(sorted) - 1) :
                        /\ sorted[i + 1] = c
                        /\ nodes'[c].y = nodes'[sorted[i]].y + nodes'[sorted[i]].height
                                          + CollisionGap]_vars

\* C8 witness: scenario B has been resolved, the second container now at 120
C8_Witness ==
    /\ ResolverReturned
    /\ \E p \in 0..Len(prev) : ScenarioB(p) /\ nodes[GroupOf(prev, p)[2]].y = 120

Reported(i, j) == <<i, j>> \in Range(node_overlaps) \/ <<j, i>> \in Range(node_overlaps)

CheckReturned == LastPass = "check" /\ pc \in {"idle", "done"}

\* C10: _check_node_overlaps reports a pair exactly when the two nodes have
\* the same parent and their boxes overlap, reports no unordered pair twice,
\* and never reports a node together with its parent.
C10_ReportsOverlappingSiblings ==
    CheckReturned =>
        /\ \A i, j \in 1..Len(nodes) :
              i # j => (Reported(i, j) <=>
                          /\ nodes[i].parentId = nodes[j].parentId
                          /\ BoxesOverlap(nodes[i], nodes[j]))
        /\ \A a, b \in 1..Len(node_overlaps) :
              a # b => /\ node_overlaps[a] # node_overlaps[b]
                       /\ node_overlaps[a] # <<node_overlaps[b][2], node_overlaps[b][1]>>
        /\ \A i, j \in 1..Len(nodes) :
              nodes[j].parentId = i => ~Reported(i, j)

\* the validator has run at the end of convert()
ConvertReturned == pc = "done"

SiblingPairs(ns) ==
    {q \in (1..Len(ns)) \X (1..Len(ns)) :
        q[1] < q[2] /\ ns[q[1]].parentId = ns[q[2]].parentId}

\* C2: when convert() runs the validator, in either layout mode, no two
\* nodes with the same parentId have overlapping boxes and the list computed
\* by _check_node_overlaps is empty.
C2_NoSiblingOverlapAtEnd ==
    ConvertReturned =>
        /\ \A q \in SiblingPairs(nodes) : ~BoxesOverlap(nodes[q[1]], nodes[q[2]])
        /\ node_overlaps = <<>>

\* C5: for every node with a parentId, the layer _assign_layers gives the
\* node is strictly greater than the layer it gives the parent.
C5_ChildLayerBelowParent ==
    LastPass = "layers" =>
        \A i \in 1..Len(nodes) :
            nodes[i].parentId # None => layers[nodes[i].id] > layers[nodes[i].parentId]

\* C7: in the layout of the layered solver, the final x of every parentless
\* node is at least x + width of every container.
C7_ParentlessRightOfContainers ==
    (ConvertReturned /\ use_sugiyama) =>
        \A i \in 1..Len(nodes) : \A c \in ContainerIds(nodes) :
            nodes[i].parentId = None => nodes[i].x >= nodes[c].x + nodes[c].width

\* the ids of the nodes of layer L, in list order
LayerIds(ns, ly, L) ==
    [k \in 1..Len(LayerNodes(ns, ly, L)) |-> ns[LayerNodes(ns, ly, L)[k]].id]

\* no node of layer L has an edge to a node of another layer
NoCrossLayerNeighbour(ns, es, ly, L) ==
    \A i \in Range(LayerNodes(ns, ly, L)) : NeighborPositions(ns, es, ly, i) = <<>>

NodeExists(ns, id) == \E i \in 1..Len(ns) : ns[i].id = id

RECURSIVE ReachesRoot(_, _, _)
ReachesRoot(ns, i, seen) ==
    IF ns[i].parentId = None THEN TRUE
    ELSE IF ~NodeExists(ns, ns[i].parentId) \/ ns[i].parentId \in seen \cup {ns[i].id}
         THEN FALSE
         ELSE ReachesRoot(ns, Find(ns, ns[i].parentId), seen \cup {ns[i].id})

\* C12: at every point of the pipeline every non-null parentId names a node
\* of the list and the parentId links from any node lead to a parentless
\* node without a repetition.
C12_ParentForest ==
    \A i \in 1..Len(nodes) : ReachesRoot(nodes, i, {})

\* C12 witness: _fix_orphaned_nodes has moved a bucket into a VPC that was
\* created after the bucket
C12_Witness ==
    /\ LastPass = "fix"
    /\ \E i \in Range(OfType(nodes, "s3")) :
          /\ prev[i].parentId = None
          /\ nodes[i].parentId > i
          /\ nodes[nodes[i].parentId].parentId # None

\* C13: convert() returns the node and edge lists for every inventory: no
\* exception leaves a handler.
C13_NoExceptionPropagates == pc # "raised"

\* the node with its position and size blanked
Structure(n) == [n EXCEPT !.x = 0, !.y = 0, !.width = 0, !.height = 0]

\* C14: once a pass has been entered, the node list, the edge list and every
\* field of a node other than position and size stay as they are; a
\* parentId is rewritten only by the step that enters the first pass, which
\* is _fix_orphaned_nodes, hence at most once.
C14_ContainmentFrozen ==
    [][/\ passes # <<>> =>
            /\ edges' = edges
            /\ Len(nodes') = Len(nodes)
            /\ \A i \in 1..Len(nodes) : Structure(nodes'[i]) = Structure(nodes[i])
       /\ \A i \in 1..Len(nodes) :
            (i <= Len(nodes') /\ nodes'[i].parentId # nodes[i].parentId)
               => passes = <<>> /\ passes' = <<"fix">>]_vars

\* C14 witness: convert() has ended in grid mode with a bucket whose
\* parentId was rewritten and a container that the layout moved down
C14_Witness ==
    /\ ConvertReturned
    /\ \E i \in Range(OfType(nodes, "s3")) : nodes[i].parentId # None
    /\ \E c \in ContainerIds(nodes) : nodes[c].y >= 360

\* C15: the step of the validators (_verify_container_bounds,
\* _check_node_overlaps, _check_edge_overlaps, _validate_all_positions)
\* leaves every node's position, width, height and parentId, and every edge,
\* as they were.
C15_ValidatorsReadOnly ==
    [][passes' = Append(passes, "check") => nodes' = nodes /\ edges' = edges]_vars

\* C15 witness: the validators have run at the end of convert() on a diagram
\* with edges and found an overlap to report
C15_Witness ==
    /\ ConvertReturned /\ LastPass = "check"
    /\ edges # <<>>
    /\ node_overlaps # <<>>

\* C16: a container with no children has the same width and height after
\* every pass of the pipeline, the sizing passes _size_containers,
\* _recalculate_all_container_sizes and _resize_containers_to_fit_children
\* among them, as it had before, hence as it was created.
C16_ChildlessContainerKeepsSize ==
    [][\A c \in ContainerIds(nodes) :
          (ChildrenOf(nodes, c) = {} /\ c <= Len(nodes') /\ ChildrenOf(nodes', c) = {})
             => /\ nodes'[c].width = nodes[c].width
                /\ nodes'[c].height = nodes[c].height]_vars

\* C16 witness: the last sizing pass of convert() has run on a diagram that
\* has a childless container next to a sibling container with children
C16_Witness ==
    /\ pc \in {"validate", "done"}
    /\ \E c, d \in ContainerIds(nodes) :
          /\ nodes[c].parentId = nodes[d].parentId
          /\ ChildrenOf(nodes, c) = {}
          /\ ChildrenOf(nodes, d) # {}

\* _calculate_positions has returned
PositionsReturned == LastPass = "position"

\* C17: after the position solver, every node's y is determined by its layer
\* alone (two nodes of one layer have the same y) and increases with the
\* layer, so that a node of a lower layer ends above every node of a higher
\* layer: a.y + a.height <= b.y.
C17_LayerBandsDisjoint ==
    PositionsReturned =>
        \A a, b \in 1..Len(nodes) :
            /\ layers[nodes[a].id] = layers[nodes[b].id] => nodes[a].y = nodes[b].y
            /\ layers[nodes[a].id] < layers[nodes[b].id]
                  => nodes[a].y + nodes[a].height <= nodes[b].y

\* _assign_layers has returned
LayersReturned == LastPass = "layers"

\* C18: _assign_layers gives a node of a type with a canonical layer that
\* layer, a node of another type that has a parent layer(parent) + 1,
\* wherever parent and child stand in the list, and a parentless node of
\* another type layer 0.
C18_LayerOfNode ==
    LayersReturned =>
        \A i \in 1..Len(nodes) :
            layers[nodes[i].id] =
                IF nodes[i].rtype \in DOMAIN RESOURCE_LAYERS
                THEN RESOURCE_LAYERS[nodes[i].rtype]
                ELSE IF nodes[i].parentId # None
                     THEN layers[nodes[i].parentId] + 1
                     ELSE 0

\* the children of p that _calculate_positions finds in layer L, in the order
\* of the list: one group of parent_groups
ChildGroup(ns, ly, L, p) == SelectSeq(LayerNodes(ns, ly, L), LAMBDA i : ns[i].parentId = p)

\* child i ends left of its parent's padded right edge, so it was not clamped
NotClamped(ns, i) ==
    ns[i].x + ns[i].width < ns[ns[i].parentId].x + ns[ns[i].parentId].width - CONTAINER_PADDING

\* C19: after the position solver, in a group of children of one parent in
\* one layer none of which was clamped, the first child's x is parent.x +
\* padding and each later child's x is the previous child's x + the previous
\* child's width + the sibling spacing.
C19_SiblingsSideBySide ==
    PositionsReturned =>
        \A p \in ContainerIds(nodes) : \A L \in Range(SortedLayers(nodes, layers)) :
            LET g == ChildGroup(nodes, layers, L, p) IN
            (g # <<>> /\ \A k \in 1..Len(g) : NotClamped(nodes, g[k])) =>
                /\ nodes[g[1]].x = nodes[p].x + CONTAINER_PADDING
                /\ \A k \in 1..(Len(g) - 1) :
                      nodes[g[k + 1]].x = nodes[g[k]].x + nodes[g[k]].width + NODE_SPACING

\* C20: after the position solver, every child lies within the padded
\* horizontal span of its parent: parent.x + padding <= child.x and
\* child.x + child.width <= parent.x + parent.width - padding.
C20_ChildWithinPaddedSpan ==
    PositionsReturned =>
        \A i \in 1..Len(nodes) :
            nodes[i].parentId # None =>
                /\ nodes[nodes[i].parentId].x + CONTAINER_PADDING <= nodes[i].x
                /\ nodes[i].x + nodes[i].width
                      <= nodes[nodes[i].parentId].x + nodes[nodes[i].parentId].width
                            - CONTAINER_PADDING

\* the places at which node i is given its position during the pass
PlacedAt(i) ==
    {k \in 1..Len(nodes) :
        PlacementOrder(nodes, layers, SortedLayers(nodes, layers))[k] = i}

\* C21: in the position solver every node is given its position once, a
\* parent before each of its children, also when both are in one layer, so
\* that on return each child's x is the one computed from the x its parent
\* has then.
C21_ParentPlacedBeforeChildren ==
    PositionsReturned =>
        \A i \in 1..Len(nodes) :
            /\ Cardinality(PlacedAt(i)) = 1
            /\ nodes[i].parentId # None =>
                  /\ \A k \in PlacedAt(i) : \A j \in PlacedAt(nodes[i].parentId) : j < k
                  /\ LET g == ChildGroup(nodes, layers, layers[nodes[i].id], nodes[i].parentId)
                     IN nodes[i].x = ChildX(nodes[nodes[i].parentId], nodes[i].width,
                                            IndexOf(g, i) - 1)

\* C21 witness: the solver has placed a child whose parent is in the same
\* layer and a child whose parent is in a lower layer
C21_Witness ==
    /\ PositionsReturned
    /\ \E i, j \in 1..Len(nodes) :
          /\ nodes[i].parentId # None /\ nodes[j].parentId # None
          /\ layers[nodes[i].id] = layers[nodes[i].parentId]
          /\ layers[nodes[j].id] > layers[nodes[j].parentId]

\* _order_nodes_by_barycenter has returned
OrderingReturned == LastPass = "order"

\* C22: after the ordering pass the nodes of every layer stand, in the order
\* in which the position solver collects that layer from the node list, by
\* ascending barycenter value, nodes of equal value in their original order.
C22_LayerLaidOutByBarycenter ==
    OrderingReturned =>
        \A L \in Range(SortedLayers(prev, layers)) :
            LayerIds(nodes, layers, L)
               = [k \in 1..Len(BarycenterOrder(prev, edges, layers, L)) |->
                     prev[BarycenterOrder(prev, edges, layers, L)[k]].id]

\* the node at the other end of edge e seen from node id
OtherEnd(e, id) == IF e.source = id THEN e.target ELSE e.source

\* the edges that join node i, in either direction, to a node of another layer
CrossLayerEdges(ns, es, ly, i) ==
    {k \in 1..Len(es) :
        /\ es[k].source = ns[i].id \/ es[k].target = ns[i].id
        /\ NodeExists(ns, OtherEnd(es[k], ns[i].id))
        /\ ly[OtherEnd(es[k], ns[i].id)] # ly[ns[i].id]}

\* the sum of the x of the far ends of the edges ks of node i
RECURSIVE SumOfNeighbourX(_, _, _, _)
SumOfNeighbourX(ns, es, i, ks) ==
    IF ks = {} THEN 0
    ELSE LET k == CHOOSE m \in ks : TRUE
         IN ns[Find(ns, OtherEnd(es[k], ns[i].id))].x
            + SumOfNeighbourX(ns, es, i, ks \ {k})

\* C23: the barycenter value the ordering pass computes for a node is the
\* mean of the x of its neighbours in other layers, one term per edge, in
\* either direction; without such a neighbour it is the node's own x; the
\* neighbours of its own layer do not count.  (Barycenter is the value
\* times Factorial(Len(edges)).)
C23_BarycenterIsMeanOfNeighbours ==
    OrderingReturned =>
        \A i \in 1..Len(prev) :
            LET ks == CrossLayerEdges(prev, edges, layers, i)
                f == Factorial(Len(edges))
            IN IF ks = {}
               THEN Barycenter(prev, edges, layers, i) = prev[i].x * f
               ELSE Barycenter(prev, edges, layers, i) * Cardinality(ks)
                       = SumOfNeighbourX(prev, edges, i, ks) * f

\* C23 witness: the ordering pass has run on a node with two neighbours of
\* different x in other layers, one by an edge that leaves the node and one
\* by an edge that enters it
C23_Witness ==
    /\ OrderingReturned
    /\ \E i \in 1..Len(prev) :
          \E a, b \in CrossLayerEdges(prev, edges, layers, i) :
              /\ edges[a].source = prev[i].id /\ edges[b].target = prev[i].id
              /\ prev[Find(prev, edges[a].target)].x # prev[Find(prev, edges[b].source)].x

\* the scans the resolver can still make: max_iterations for each group not
\* yet left, less those made in the current group
ScansLeft(pend, it) == Len(pend) * max_iterations - it

\* C24: every scan of a parent group is at most the 10th of that group; the
\* group is left after the 10th scan whatever it found and right after a
\* scan that pushed nothing; each scan uses up one of the finitely many scans
\* left, so the resolver terminates.
C24_ResolverScansBounded ==
    [][(IsScan /\ pending # <<>>) =>
          /\ iteration + 1 <= max_iterations
          /\ iteration + 1 = max_iterations => pending' = Tail(pending)
          /\ nodes' = nodes => pending' = Tail(pending)
          /\ pending' = Tail(pending) => iteration' = 0
          /\ ScansLeft(pending', iteration') < ScansLeft(pending, iteration)
          /\ ScansLeft(pending', iteration') >= 0]_vars

\* C24 witness: the resolver has returned after a scan that pushed a
\* container and a second scan of the same group that pushed nothing
C24_Witness ==
    /\ ResolverReturned
    /\ pending = <<>> /\ iteration = 0
    /\ \E c \in ContainerIds(nodes) : nodes[c].y > prev[c].y

\* a step of the resolver: its entry or one of its scans
IsResolverStep == passes' = Append(passes, "resolve") \/ IsScan

\* C25: the resolver changes only the y of containers: every non-container
\* node, and the x, width, height, parentId of every node, stay as they are;
\* so does the y of a container that is the only container under its
\* parent; and no container's y decreases.
C25_ResolverMovesContainersDown ==
    [][IsResolverStep =>
          /\ Len(nodes') = Len(nodes)
          /\ edges' = edges
          /\ \A i \in 1..Len(nodes) :
                /\ [nodes'[i] EXCEPT !.y = 0] = [nodes[i] EXCEPT !.y = 0]
                /\ ~nodes[i].isContainer => nodes'[i] = nodes[i]
                /\ Len(GroupOf(nodes, nodes[i].parentId)) < 2 => nodes'[i] = nodes[i]
                /\ nodes'[i].y >= nodes[i].y]_vars

\* C25 witness: the resolver has returned after pushing down a container
\* that holds a non-container node, in a tree in which another container is
\* the only container under its parent
C25_Witness ==
    /\ ResolverReturned
    /\ \E c \in ContainerIds(nodes) :
          /\ nodes[c].y > prev[c].y
          /\ \E k \in ChildrenOf(nodes, c) : ~nodes[k].isContainer
    /\ \E d \in ContainerIds(nodes) : Len(GroupOf(nodes, nodes[d].parentId)) = 1

\* (edge k, node n) is in the list _check_edge_overlaps returned
ReportedCrossing(k, n) == <<k, n>> \in Range(edge_overlaps)

\* the nodes related to node i: itself, the containers around it up to the
\* root, and everything inside it
RelatedTo(ns, i) == {i} \cup AncestorsOf(ns, i) \cup DescendantsOf(ns, i)

\* C26: _check_edge_overlaps reports no pair (edge, node) whose node is an
\* endpoint of the edge, an ancestor of an endpoint at any distance, or a
\* descendant of an endpoint at any distance.
C26_NoRelatedNodeReported ==
    CheckReturned =>
        \A k \in 1..Len(edges) : \A n \in 1..Len(nodes) :
            ReportedCrossing(k, nodes[n].id) =>
                n \notin RelatedTo(nodes, Find(nodes, edges[k].source))
                            \cup RelatedTo(nodes, Find(nodes, edges[k].target))

\* the start, the middle and the target end of the segment between the
\* centres of the endpoints of edge e, in coordinates multiplied by 4
SegmentPoints4(ns, e) ==
    LET s == Centre2(ns[Find(ns, e.source)])
        t == Centre2(ns[Find(ns, e.target)])
    IN {<<2 * s[1], 2 * s[2]>>, <<s[1] + t[1], s[2] + t[2]>>, <<2 * t[1], 2 * t[2]>>}

\* the point pt (coordinates multiplied by 4) is closer to the box of node n
\* than the threshold
NearBox4(pt, n) ==
    LET closest_x == Max2(4 * n.x, Min2(pt[1], 4 * (n.x + n.width)))
        closest_y == Max2(4 * n.y, Min2(pt[2], 4 * (n.y + n.height)))
        dx == pt[1] - closest_x
        dy == pt[2] - closest_y
    IN dx * dx + dy * dy < 16 * DistanceThresholdSquared

\* C27: for an edge and a node that is neither an endpoint nor an ancestor
\* nor a descendant of one, the pair is reported exactly when a point of the
\* segment between the centres of the endpoints is within the threshold of
\* the node's box; the points taken here are the three the claim names, the
\* start, the middle and the target end.
C27_ReportedIffSegmentNearBox ==
    CheckReturned =>
        \A k \in 1..Len(edges) : \A n \in 1..Len(nodes) :
            n \notin RelatedTo(nodes, Find(nodes, edges[k].source))
                        \cup RelatedTo(nodes, Find(nodes, edges[k].target))
               => (ReportedCrossing(k, nodes[n].id)
                      <=> \E pt \in SegmentPoints4(nodes, edges[k]) : NearBox4(pt, nodes[n]))

\* _apply_hierarchical_layout has returned
GridLayoutReturned == ~use_sugiyama /\ LastPass = "recalc"

\* C28: when the grid layout returns, no two nodes with the same parentId
\* have overlapping boxes.
C28_GridSiblingsDisjoint ==
    GridLayoutReturned =>
        \A q \in SiblingPairs(nodes) : ~BoxesOverlap(nodes[q[1]], nodes[q[2]])

\* _resize_containers_to_fit_children has returned
ResizeReturned == LastPass = "resize"

\* C29: after _resize_containers_to_fit_children the box of every container
\* with a child is given by the boxes of its direct children alone: corner
\* at (min child x - 30, min child y - 30), size the children's extent + 60
\* each way; where the container stood before the pass, for instance lower
\* after a push of the resolver, does not enter.
C29_BoxFromChildrenAlone ==
    ResizeReturned =>
        \A c \in ContainerIds(nodes) :
            ChildrenOf(nodes, c) # {} =>
                LET ch == ChildrenOf(nodes, c)
                    min_x == SetMin({nodes[k].x : k \in ch})
                    min_y == SetMin({nodes[k].y : k \in ch})
                IN /\ nodes[c].x = min_x - ResizePadding
                   /\ nodes[c].y = min_y - ResizePadding
                   /\ nodes[c].width
                         = SetMax({nodes[k].x + nodes[k].width : k \in ch}) - min_x
                              + 2 * ResizePadding
                   /\ nodes[c].height
                         = SetMax({nodes[k].y + nodes[k].height : k \in ch}) - min_y
                              + 2 * ResizePadding

\* C29 witness: the resize pass was entered with a container with children
\* standing where the resolver had pushed it, below a sibling container plus
\* the gap, and has moved it back up to its children
C29_Witness ==
    /\ ResizeReturned /\ PassBefore = "resolve"
    /\ \E q \in SiblingContainerPairs(nodes) : \E c \in {q[1], q[2]} :
          LET c1 == IF c = q[1] THEN q[2] ELSE q[1]
          IN /\ ChildrenOf(nodes, c) # {}
             /\ prev[c].y = prev[c1].y + prev[c1].height + CollisionGap
             /\ nodes[c].y < prev[c].y

\* no container of group p reaches below the top of the next one in the
\* order of their y
NoAdjacentOverlap(ns, p) ==
    \A i \in 1..(Len(ContainersSorted(ns, p)) - 1) :
        ~OverlapInY(ns, ContainersSorted(ns, p)[i], ContainersSorted(ns, p)[i + 1])

\* C30: for a group of sibling containers with positive heights the resolver
\* is at its fixed point after one scan: after the first scan no container
\* reaches below the top of the next one in y order, a second scan pushes
\* nothing, and no group is scanned a third time, so the cap of 10 scans is
\* not reached.
C30_FixedPointInTwoScans ==
    [][(IsScan /\ pending # <<>>
          /\ \A c \in Range(GroupOf(nodes, Head(pending))) : nodes[c].height > 0) =>
          /\ NoAdjacentOverlap(nodes', Head(pending))
          /\ iteration >= 1 => nodes' = nodes
          /\ iteration <= 1
          /\ iteration' <= 1]_vars

\* C30 witness: the resolver has returned after a first scan that pushed two
\* containers of one group, the second below the first one's new place
C30_Witness ==
    /\ ResolverReturned
    /\ \E p \in 1..Len(nodes) : \E a, b \in Range(GroupOf(nodes, p)) :
          /\ nodes[a].y > prev[a].y
          /\ nodes[b].y > prev[b].y
          /\ nodes[b].y = nodes[a].y + nodes[a].height + CollisionGap

====
